---- MODULE Spec2Model ----
(***************************************************************************)
(* pyEight: the device session (EightSleep, src/pyeight/eight.py) with its *)
(* ten-slot list of raw device snapshots, and the per-side presence        *)
(* classifier (EightUser.dynamic_presence, src/pyeight/user.py).           *)
(*                                                                         *)
(* A snapshot (the JSON object of one poll) is a function from its keys to *)
(* their values; d.get(k) is None exactly when k is not in DOMAIN d.       *)
(* A call's outcome is a record: [val |-> v] (returned v), [none |-> TRUE] *)
(* (returned None) or [exc |-> e] (raised e).                              *)
(***************************************************************************)
EXTENDS Integers, Sequences, FiniteSets, TLC

VARIABLES
    device_json,   \* EightSleep._device_json: the list of the last readings
    session,       \* EightSleep._userid/_token/_expdate: None or a login result
    devices,       \* EightSleep._devices: None or [list |-> the device ids]
    pod,           \* EightSleep._pod
    users,         \* EightSleep.users: side |-> the EightUser of that side
    log,           \* history: every snapshot handed to handle_device_json, oldest first
    last,          \* the call that produced this state: [op, side, exc]
    api_session,       \* EightSleep._api_session: None or a client session
    internal_session,  \* EightSleep._internal_session
    closed,        \* history: the client sessions that were closed
    sent,          \* history: the requests the last call sent, in order
    returned       \* what the last call returned

vars == <<device_json, session, devices, pod, users, log, last,
          api_session, internal_session, closed, sent, returned>>

\* The client session and its bookkeeping.
http == <<api_session, internal_session, closed>>

-----------------------------------------------------------------------------
(* Values *)

Sides == {"left", "right"}

\* Python's None, where it stands in a list slot or in an attribute.
None == [None |-> TRUE]

NoExc == "none"

Return(v) == [val |-> v]
ReturnNone == [none |-> TRUE]
Raise(e) == [exc |-> e]
IsRaise(r) == "exc" \in DOMAIN r
\* bool(r) of a returned value that is None or a boolean
Truthy(r) == "val" \in DOMAIN r /\ r.val = TRUE

Min(a, b) == IF a < b THEN a ELSE b

HeatingLevelKey(side) == side \o "HeatingLevel"
TargetHeatingLevelKey(side) == side \o "TargetHeatingLevel"
NowHeatingKey(side) == side \o "NowHeating"

\* The keys of one side's reading rd, prefixed with the side as the API does.
SideFields(side, rd) ==
    [k \in {side \o f : f \in DOMAIN rd} |->
        rd[CHOOSE f \in DOMAIN rd : side \o f = k]]

\* One poll's device JSON: the left side's reading and the right side's.
Snapshot(l, r) == SideFields("left", l) @@ SideFields("right", r)

-----------------------------------------------------------------------------
(* Bounds and inputs *)

\* The number of snapshots a behaviour of Spec pushes.
MaxPushes == 4
\* The number of snapshots a behaviour of SpecHistory pushes.
MaxHistoryPushes == 11

\* The number of snapshots a behaviour of SpecCommands pushes.
MaxCommandPushes == 3

\* The number of snapshots a behaviour of SpecSession pushes, and the number
\* of client sessions it closes before start() is no longer called.
MaxSessionPushes == 2
MaxSessions == 2

\* The number of snapshots a behaviour of SpecLevels pushes.
MaxLevelPushes == 2

\* The number of snapshots a behaviour of SpecRise or SpecFall pushes.
MaxRulePushes == 4
\* The number of snapshots a behaviour of SpecHigh pushes.
MaxHighPushes == 3

\* Readings of one side.
TargetOnly == [TargetHeatingLevel |-> 0]
LevelOnly == [HeatingLevel |-> -10]
Warm == [HeatingLevel |-> 60, TargetHeatingLevel |-> 0, NowHeating |-> FALSE]
Mid == [HeatingLevel |-> 30, TargetHeatingLevel |-> 0, NowHeating |-> FALSE]
Cool == [HeatingLevel |-> -20, TargetHeatingLevel |-> 0, NowHeating |-> FALSE]

\* The device JSONs the transport can return in Spec.
Snapshots ==
    { Snapshot(TargetOnly, LevelOnly), Snapshot(LevelOnly, TargetOnly),
      Snapshot(Warm, Mid), Snapshot(Cool, Warm) }

\* The device JSONs the transport can return in SpecHistory: two that differ,
\* and on which no evaluation passes the early exit.
HistorySnapshots ==
    { Snapshot(TargetOnly, LevelOnly), Snapshot(LevelOnly, TargetOnly) }

\* A full reading of one side, and one with the heater off and no target set.
Reading(level, target, heating) ==
    [HeatingLevel |-> level, TargetHeatingLevel |-> target, NowHeating |-> heating]
Idle(level) == Reading(level, 0, FALSE)

\* Readings around the rising edge: levels that climb by 1, 2 or more into
\* the band above 25, with the heater off and on.
RiseReadings ==
    { Idle(-10), Idle(26), Idle(28), Idle(29), Idle(30),
      Reading(29, 10, TRUE), Reading(30, 25, TRUE), Reading(30, 20, TRUE) }

\* Readings around the falling edge and the failsafe floor: levels that drop
\* from 60 through 50, 35 and 25 to the floor of 15 and below.
FallReadings ==
    { Idle(60), Idle(54), Idle(52), Idle(50), Idle(40), Idle(30), Idle(25),
      Idle(-40), Reading(15, 20, TRUE) }

\* Readings around the activation level of 50: the heater or cooler off,
\* on with and without an excess of 8 over the target, the flag missing,
\* and levels that set a low of -40 or -80.
HighReadings ==
    { Idle(60), Reading(60, 0, TRUE), Reading(60, 55, TRUE),
      Reading(60, 52, TRUE), Reading(60, -10, TRUE), Reading(60, -55, TRUE),
      [HeatingLevel |-> 60, TargetHeatingLevel |-> 55],
      Idle(-40), Idle(-80), Idle(15), Reading(15, -10, TRUE),
      Reading(-25, -30, TRUE) }

\* The device JSONs of the specifications of the presence rules: both sides
\* report the same reading.
RiseSnapshots == { Snapshot(rd, rd) : rd \in RiseReadings }
FallSnapshots == { Snapshot(rd, rd) : rd \in FallReadings }
HighSnapshots == { Snapshot(rd, rd) : rd \in HighReadings }

\* POST /login: no result, or a session.
LoginResults ==
    { None, [userId |-> "u1", token |-> "t1", expirationDate |-> "e1"] }

\* GET /users/me: no result, or the user's devices and features.
DeviceLists ==
    { None, [devices |-> [list |-> <<"d1">>], cooling |-> FALSE],
            [devices |-> [list |-> <<"d1">>], cooling |-> TRUE] }

\* GET /devices/<id>?filter=...: no result, or who lies on which side
\* ("" is a missing or empty id).
Assignments ==
    { None } \cup
    { [rightUserId |-> r, leftUserId |-> l] : r \in {"", "u1"}, l \in {"", "u1", "u2"} }

\* The same request on a bed with one sleeper, on either side.
RuleAssignments ==
    { [rightUserId |-> "u1", leftUserId |-> ""],
      [rightUserId |-> "", leftUserId |-> "u1"] }

-----------------------------------------------------------------------------
(* EightSleep *)

\* A list that starts with a reading in its first slot.
StaleDeviceJson == [i \in 1..10 |-> IF i = 1 THEN Snapshot(Warm, Warm) ELSE None]

InitialDeviceJson == [i \in 1..10 |-> None]

\* A user that starts present.
EightUserPresent(user_id, side) ==
    [user_id |-> user_id, side |-> side, presence |-> TRUE, observed_low |-> 0]

\* EightUser.__init__
EightUser(user_id, side) ==
    [user_id |-> user_id, side |-> side, presence |-> FALSE, observed_low |-> 0]

Constructed(client_session) ==
    /\ device_json = InitialDeviceJson
    /\ session = None
    /\ devices = None
    /\ pod = FALSE
    /\ users = <<>>
    /\ log = <<>>
    /\ last = [op |-> "__init__", side |-> "", exc |-> NoExc]
    /\ api_session = client_session
    /\ internal_session = FALSE
    /\ closed = {}
    /\ sent = <<>>
    /\ returned = ReturnNone

\* EightSleep(email, password, timezone): no client session is passed.
Init == Constructed(None)

\* EightSleep.device_data
device_data(dj) == dj[1]

\* insert(0, data) without the pop().
PushedNoPop(dj, data) == <<data>> \o dj

\* append(data) and pop(0): the newest reading at the back.
PushedAtBack(dj, data) == Append(Tail(dj), data)

\* The list after handle_device_json(data): insert(0, data), then pop().
Pushed(dj, data) ==
    LET inserted == <<data>> \o dj
    IN  SubSeq(inserted, 1, Len(inserted) - 1)

-----------------------------------------------------------------------------
(* EightUser: accessors *)

\* EightUser.target_heating_level
target_heating_level(dj, side) ==
    IF device_data(dj) = None THEN Raise("AttributeError")
    ELSE IF TargetHeatingLevelKey(side) \in DOMAIN device_data(dj)
         THEN Return(device_data(dj)[TargetHeatingLevelKey(side)])
         ELSE ReturnNone

\* EightUser.heating_level: the value the property returns.
heating_level(dj, side) ==
    IF device_data(dj) = None THEN Raise("AttributeError")
    ELSE IF HeatingLevelKey(side) \in DOMAIN device_data(dj)
         THEN Return(device_data(dj)[HeatingLevelKey(side)])
         ELSE ReturnNone

\* The property without its ratchet: observed_low is never lowered.
observed_low_kept(observed_low, level) == observed_low

\* The comparison of the update turned around.
observed_high_update(observed_low, level) ==
    IF level > observed_low THEN level ELSE observed_low

\* EightUser.heating_level: observed_low after the property read `level`.
observed_low_update(observed_low, level) ==
    IF level < observed_low THEN level ELSE observed_low

\* EightUser.heating_level: observed_low after one read of the property.
observed_low_after_read(dj, side, observed_low) ==
    LET level == heating_level(dj, side)
    IN  IF "val" \in DOMAIN level
        THEN observed_low_update(observed_low, level.val)
        ELSE observed_low

\* past_heating_level counting from the snapshot before the current one:
\* index num of the history is taken to be slot num + 1 of the list.
past_heating_level_previous(dj, side, num) ==
    IF num > 9 \/ Len(dj) < num + 2 THEN Return(0)
    ELSE IF dj[num + 2] = None THEN Raise("AttributeError")
    ELSE IF HeatingLevelKey(side) \in DOMAIN dj[num + 2]
         THEN Return(dj[num + 2][HeatingLevelKey(side)])
         ELSE Return(0)

\* EightUser.past_heating_level
past_heating_level(dj, side, num) ==
    IF num > 9 \/ Len(dj) < num + 1 THEN Return(0)
    ELSE IF dj[num + 1] = None THEN Raise("AttributeError")
    ELSE IF HeatingLevelKey(side) \in DOMAIN dj[num + 1]
         THEN Return(dj[num + 1][HeatingLevelKey(side)])
         ELSE Return(0)

\* EightUser._now_heating_or_cooling
now_heating_or_cooling(dj, side, target_heating_level_check) ==
    LET target == target_heating_level(dj, side)
    IN  IF IsRaise(target) THEN target
        ELSE IF target = ReturnNone
                \/ NowHeatingKey(side) \notin DOMAIN device_data(dj)
             THEN ReturnNone
             ELSE Return(device_data(dj)[NowHeatingKey(side)]
                         /\ target_heating_level_check)

\* EightUser.now_heating: the argument target_heating_level > 0 is computed
\* first, and None > 0 raises TypeError.
now_heating(dj, side) ==
    LET target == target_heating_level(dj, side)
    IN  IF IsRaise(target) THEN target
        ELSE IF target = ReturnNone THEN Raise("TypeError")
        ELSE now_heating_or_cooling(dj, side, target.val > 0)

\* EightUser.now_cooling
now_cooling(dj, side) ==
    LET target == target_heating_level(dj, side)
    IN  IF IsRaise(target) THEN target
        ELSE IF target = ReturnNone THEN Raise("TypeError")
        ELSE now_heating_or_cooling(dj, side, target.val < 0)

\* a - b of two call outcomes, the left operand evaluated first.
Difference(a, b) ==
    IF IsRaise(a) THEN a
    ELSE IF IsRaise(b) THEN b
    ELSE Return(a.val - b.val)

\* past_heating_level(n) - past_heating_level(n + 1)
Delta(dj, side, n) ==
    Difference(past_heating_level(dj, side, n),
               past_heating_level(dj, side, n + 1))

\* The same test with a rise of 1 counted as a rising step.
AllRisingByOne(d0, d1, d2) ==
    IF IsRaise(d0) THEN d0
    ELSE IF ~(d0.val >= 1) THEN Return(FALSE)
    ELSE IF IsRaise(d1) THEN d1
    ELSE IF ~(d1.val >= 1) THEN Return(FALSE)
    ELSE IF IsRaise(d2) THEN d2
    ELSE Return(d2.val >= 1)

\* d0 >= 2 and d1 >= 2 and d2 >= 2 as Python evaluates it: left to right,
\* stopping at the first false or raising term.
AllRising(d0, d1, d2) ==
    IF IsRaise(d0) THEN d0
    ELSE IF ~(d0.val >= 2) THEN Return(FALSE)
    ELSE IF IsRaise(d1) THEN d1
    ELSE IF ~(d1.val >= 2) THEN Return(FALSE)
    ELSE IF IsRaise(d2) THEN d2
    ELSE Return(d2.val >= 2)

\* d0 < 0 and d1 < 0 and d2 < 0, evaluated the same way.
AllFalling(d0, d1, d2) ==
    IF IsRaise(d0) THEN d0
    ELSE IF ~(d0.val < 0) THEN Return(FALSE)
    ELSE IF IsRaise(d1) THEN d1
    ELSE IF ~(d1.val < 0) THEN Return(FALSE)
    ELSE IF IsRaise(d2) THEN d2
    ELSE Return(d2.val < 0)

\* "Catch rising edge": the three consecutive deltas over the last four samples.
rising_edge(dj, side) ==
    AllRising(Delta(dj, side, 0), Delta(dj, side, 1), Delta(dj, side, 2))

\* "Values are decreasing so we are likely out of bed"
falling_edge(dj, side) ==
    AllFalling(Delta(dj, side, 0), Delta(dj, side, 1), Delta(dj, side, 2))

-----------------------------------------------------------------------------
(* EightUser.dynamic_presence *)

\* The activation with the cooling excess taken over the low, as the heating
\* excess is.
pod_activation_shifted(dj, side, presence, level, target, working_level) ==
    IF ~Truthy(now_cooling(dj, side)) /\ ~Truthy(now_heating(dj, side))
    THEN Return(TRUE)
    ELSE IF target > 0
    THEN IF working_level - target >= 8
         THEN Return(TRUE) ELSE Return(presence)
    ELSE IF target < 0
    THEN IF working_level + target >= 8
         THEN Return(TRUE) ELSE Return(presence)
    ELSE Return(presence)

\* A pod side that is absent, above the activation level: present when the
\* side neither heats nor cools, or by the excess over the target.
pod_activation(dj, side, presence, level, target, working_level) ==
    IF ~Truthy(now_cooling(dj, side)) /\ ~Truthy(now_heating(dj, side))
    THEN Return(TRUE)
    ELSE IF target > 0
    THEN IF working_level - target >= 8
         THEN Return(TRUE) ELSE Return(presence)
    ELSE IF target < 0
    THEN IF level + target >= 8
         THEN Return(TRUE) ELSE Return(presence)
    ELSE Return(presence)

\* A pod side that is absent, in the band of the rising edge.
pod_rising(dj, side, presence, target, working_level) ==
    LET rising == rising_edge(dj, side)
    IN  IF IsRaise(rising) THEN rising
        ELSE IF rising.val
        THEN IF ~Truthy(now_heating(dj, side))
             THEN Return(TRUE)
             ELSE IF working_level - target >= 8
                  THEN Return(TRUE) ELSE Return(presence)
        ELSE Return(presence)

\* The pod rule with the falling edge tested up to 50, as on a device
\* resting at 0.
pod_leaving_wide(dj, side, presence, working_level) ==
    IF working_level <= 15
    THEN Return(FALSE)
    ELSE IF working_level < 50
    THEN LET falling == falling_edge(dj, side)
         IN  IF IsRaise(falling) THEN falling
             ELSE IF falling.val THEN Return(FALSE)
             ELSE Return(presence)
    ELSE Return(presence)

\* The pod floor without its upper end.
pod_leaving_strict(dj, side, presence, working_level) ==
    IF working_level < 15
    THEN Return(FALSE)
    ELSE IF working_level < 35
    THEN LET falling == falling_edge(dj, side)
         IN  IF IsRaise(falling) THEN falling
             ELSE IF falling.val THEN Return(FALSE)
             ELSE Return(presence)
    ELSE Return(presence)

\* A pod side that is present: the failsafe floor, then the falling edge.
pod_leaving(dj, side, presence, working_level) ==
    IF working_level <= 15
    THEN Return(FALSE)
    ELSE IF working_level < 35
    THEN LET falling == falling_edge(dj, side)
         IN  IF IsRaise(falling) THEN falling
             ELSE IF falling.val THEN Return(FALSE)
             ELSE Return(presence)
    ELSE Return(presence)

\* The pod branch: presence after the rules, or the exception an edge test
\* raised.  level and target are the current snapshot's, working_level is
\* level shifted by the observed low.
pod_presence(dj, side, presence, level, target, working_level) ==
    IF ~presence
    THEN IF working_level > 50
         THEN pod_activation(dj, side, presence, level, target, working_level)
         ELSE IF working_level > 25
         THEN pod_rising(dj, side, presence, target, working_level)
         ELSE Return(presence)
    ELSE pod_leaving(dj, side, presence, working_level)

\* The activation with any level at or above the target counted as an excess.
plain_activation_lax(dj, side, presence, level, target) ==
    IF ~Truthy(now_heating(dj, side))
    THEN Return(TRUE)
    ELSE IF level - target >= 0
         THEN Return(TRUE) ELSE Return(presence)

\* A side that is absent on a device resting at 0, above the activation level.
plain_activation(dj, side, presence, level, target) ==
    IF ~Truthy(now_heating(dj, side))
    THEN Return(TRUE)
    ELSE IF level - target >= 8
         THEN Return(TRUE) ELSE Return(presence)

\* The same side in the band of the rising edge.
plain_rising(dj, side, presence, level, target) ==
    LET rising == rising_edge(dj, side)
    IN  IF IsRaise(rising) THEN rising
        ELSE IF rising.val
        THEN IF ~Truthy(now_heating(dj, side))
             THEN Return(TRUE)
             ELSE IF level - target >= 8
                  THEN Return(TRUE) ELSE Return(presence)
        ELSE Return(presence)

\* The rule with the falling edge tested below 35 only, as on a pod.
plain_leaving_narrow(dj, side, presence, level) ==
    IF level <= 15
    THEN Return(FALSE)
    ELSE IF level < 35
    THEN LET falling == falling_edge(dj, side)
         IN  IF IsRaise(falling) THEN falling
             ELSE IF falling.val THEN Return(FALSE)
             ELSE Return(presence)
    ELSE Return(presence)

\* The floor without its upper end: a level of 15 goes to the falling edge.
plain_leaving_strict(dj, side, presence, level) ==
    IF level < 15
    THEN Return(FALSE)
    ELSE IF level < 50
    THEN LET falling == falling_edge(dj, side)
         IN  IF IsRaise(falling) THEN falling
             ELSE IF falling.val THEN Return(FALSE)
             ELSE Return(presence)
    ELSE Return(presence)

\* The floor raised over the activation level: a present side at 60 or
\* below is made absent.
plain_leaving_high_floor(dj, side, presence, level) ==
    IF level <= 60
    THEN Return(FALSE)
    ELSE IF level < 50
    THEN LET falling == falling_edge(dj, side)
         IN  IF IsRaise(falling) THEN falling
             ELSE IF falling.val THEN Return(FALSE)
             ELSE Return(presence)
    ELSE Return(presence)

\* A present side on a device resting at 0: the failsafe floor, then the
\* falling edge.
plain_leaving(dj, side, presence, level) ==
    IF level <= 15
    THEN Return(FALSE)
    ELSE IF level < 50
    THEN LET falling == falling_edge(dj, side)
         IN  IF IsRaise(falling) THEN falling
             ELSE IF falling.val THEN Return(FALSE)
             ELSE Return(presence)
    ELSE Return(presence)

\* The branch with the activation level at 20.
plain_presence_eager(dj, side, presence, level, target) ==
    IF ~presence
    THEN IF level > 20
         THEN plain_activation(dj, side, presence, level, target)
         ELSE IF level > 25
         THEN plain_rising(dj, side, presence, level, target)
         ELSE Return(presence)
    ELSE plain_leaving(dj, side, presence, level)

\* The branch for a device that rests at 0.
plain_presence(dj, side, presence, level, target) ==
    IF ~presence
    THEN IF level > 50
         THEN plain_activation(dj, side, presence, level, target)
         ELSE IF level > 25
         THEN plain_rising(dj, side, presence, level, target)
         ELSE Return(presence)
    ELSE plain_leaving(dj, side, presence, level)

\* The outcome of dynamic_presence for user u, whose rules gave `result`.
Outcome(u, result) ==
    IF IsRaise(result)
    THEN [user |-> u, exc |-> result.exc]
    ELSE [user |-> [u EXCEPT !.presence = result.val], exc |-> NoExc]

\* dynamic_presence past its early exit: u has read its heating level.
presence_rules(dj, is_pod, u, level, target) ==
    Outcome(u,
        IF is_pod
        THEN pod_presence(dj, u.side, u.presence, level, target,
                          level + u.observed_low * (-1))
        ELSE plain_presence(dj, u.side, u.presence, level, target))

\* An early exit that clears the flag.
skipped_reset(u) == [user |-> [u EXCEPT !.presence = FALSE], exc |-> NoExc]

\* The early exit of dynamic_presence: a plain return.
skipped(u) == [user |-> u, exc |-> NoExc]

\* dynamic_presence() of user u on the list dj: the user afterwards, and the
\* exception that escaped (NoExc when the call returned).  The early exit
\* reads target_heating_level first and heating_level only if the target is
\* there; a read of heating_level lowers observed_low.
dynamic_presence(dj, is_pod, u) ==
    IF IsRaise(target_heating_level(dj, u.side))
    THEN [user |-> u, exc |-> target_heating_level(dj, u.side).exc]
    ELSE IF target_heating_level(dj, u.side) = ReturnNone
    THEN skipped(u)
    ELSE IF heating_level(dj, u.side) = ReturnNone
    THEN skipped(u)
    ELSE presence_rules(dj, is_pod,
             [u EXCEPT !.observed_low =
                 observed_low_after_read(dj, u.side, u.observed_low)],
             heating_level(dj, u.side).val,
             target_heating_level(dj, u.side).val)

-----------------------------------------------------------------------------
(* Operations *)

Called(op, side, exc) == [op |-> op, side |-> side, exc |-> exc]

\* The call ends: what it was, the requests it sent and what it returned
\* (ReturnNone also when it raised).
Finished(call, requests, ret) ==
    /\ last' = call
    /\ sent' = requests
    /\ returned' = ret

\* A client session: who created it, and the number of sessions closed
\* before it was created.
ClientSession(owner, id) == [owner |-> owner, id |-> id]

\* The Session-Token header of a request sent without one.
NoToken == "-"

\* One request: its endpoint and its Session-Token header.
Request(endpoint, token) == [endpoint |-> endpoint, token |-> token]

\* EightSleep.token as the Session-Token header of a request carries it.
session_token(current) == IF current = None THEN NoToken ELSE current.token

\* The renewal test with the hour itself counted as expiring.
TokenExpiringWithinHour(remaining) == remaining <= 3600

\* The token has less than an hour left (remaining: its seconds to expiry).
TokenExpiring(remaining) == remaining < 3600

\* api_post of fetch_token (include_token=False) and the api_get calls.
LoginRequest == Request("login", NoToken)
DeviceListRequest(token) == Request("users/me", token)
AssignRequest(token) == Request("devices/id?filter", token)
DeviceDataRequest(token) == Request("devices/id", token)

\* self.users iterates in insertion order: assign_users creates the right
\* side's user first.
UserOrder == <<"right", "left">>

\* for user in self.users: self.users[user].dynamic_presence()
\* The loop ends at the first exception.
RECURSIVE evaluate_users(_, _, _, _)
RECURSIVE evaluate_rest(_, _, _, _, _)
evaluate_users(dj, is_pod, us, order) ==
    IF order = <<>> THEN [users |-> us, exc |-> NoExc]
    ELSE IF Head(order) \notin DOMAIN us
    THEN evaluate_users(dj, is_pod, us, Tail(order))
    ELSE evaluate_rest(dj, is_pod, us, order,
                       dynamic_presence(dj, is_pod, us[Head(order)]))

\* The loop after the first user of `order` was evaluated with outcome r.
evaluate_rest(dj, is_pod, us, order, r) ==
    IF r.exc # NoExc
    THEN [users |-> [us EXCEPT ![Head(order)] = r.user], exc |-> r.exc]
    ELSE evaluate_users(dj, is_pod, [us EXCEPT ![Head(order)] = r.user],
                        Tail(order))

\* fetch_token storing what the login returned even when it is nothing.
fetch_token_clearing(current, reg) == reg

\* fetch_token: the session fields after the login request returned reg.
fetch_token(current, reg) == IF reg = None THEN current ELSE reg

\* assign_users: the users dict after the request returned data.
assign_users(us, data) ==
    IF data = None THEN us
    ELSE LET with_right ==
                 IF data.rightUserId # ""
                 THEN ("right" :> EightUser(data.rightUserId, "right")) @@ us
                 ELSE us
         IN  IF data.leftUserId # ""
                /\ data.leftUserId \notin
                       {with_right[s].user_id : s \in DOMAIN with_right}
             THEN ("left" :> EightUser(data.leftUserId, "left")) @@ with_right
             ELSE with_right

\* start() without the test of the token: the device list is fetched and the
\* users are assigned whether or not the login returned a token.
StartUnconditional(reg, dlist, data) ==
    /\ session = None
    /\ api_session' = IF api_session = None
                      THEN ClientSession("library", Cardinality(closed))
                      ELSE api_session
    /\ internal_session' = IF api_session = None THEN TRUE
                           ELSE internal_session
    /\ LET session1 == fetch_token(session, reg)
           devices1 == IF dlist = None THEN devices ELSE dlist.devices
           pod1 == IF dlist # None /\ dlist.cooling THEN TRUE ELSE pod
       IN  /\ session' = session1
           /\ devices' = devices1
           /\ pod' = pod1
           /\ IF devices1 = None
              THEN /\ UNCHANGED users
                   /\ Finished(Called("start", "", "TypeError"),
                               <<LoginRequest,
                                 DeviceListRequest(session_token(session1))>>,
                               ReturnNone)
              ELSE /\ users' = assign_users(users, data)
                   /\ Finished(Called("start", "", NoExc),
                               <<LoginRequest,
                                 DeviceListRequest(session_token(session1)),
                                 AssignRequest(session_token(session1))>>,
                               Return(TRUE))
    /\ UNCHANGED <<device_json, log, closed>>

\* EightSleep.start().  reg, dlist and data are what the three requests return
\* (None: the request failed).  start() is the session's setup: the caller
\* repeats it until a login succeeded, so every EightUser is created once.
Start(reg, dlist, data) ==
    /\ session = None
    /\ api_session' = IF api_session = None
                      THEN ClientSession("library", Cardinality(closed))
                      ELSE api_session
    /\ internal_session' = IF api_session = None THEN TRUE
                           ELSE internal_session
    /\ LET session1 == fetch_token(session, reg)
           devices1 == IF dlist = None THEN devices ELSE dlist.devices
           pod1 == IF dlist # None /\ dlist.cooling THEN TRUE ELSE pod
       IN  /\ session' = session1
           /\ IF session1 = None
              THEN \* return False
                   /\ UNCHANGED <<devices, pod, users>>
                   /\ Finished(Called("start", "", NoExc),
                               <<LoginRequest>>, Return(FALSE))
              ELSE /\ devices' = devices1
                   /\ pod' = pod1
                   /\ IF devices1 = None
                      THEN \* assign_users: self._devices[0] on None
                           /\ UNCHANGED users
                           /\ Finished(Called("start", "", "TypeError"),
                                       <<LoginRequest,
                                         DeviceListRequest(session1.token)>>,
                                       ReturnNone)
                      ELSE /\ users' = assign_users(users, data)
                           /\ Finished(Called("start", "", NoExc),
                                       <<LoginRequest,
                                         DeviceListRequest(session1.token),
                                         AssignRequest(session1.token)>>,
                                       Return(TRUE))
    /\ UNCHANGED <<device_json, log, closed>>

\* stop() without the test of _internal_session: whatever session is open is
\* closed.
StopAnySession ==
    /\ IF api_session # None
       THEN /\ closed' = closed \cup {api_session}
            /\ api_session' = None
       ELSE UNCHANGED <<api_session, closed>>
    /\ Finished(Called("stop", "", NoExc), <<>>, ReturnNone)
    /\ UNCHANGED <<device_json, session, devices, pod, users, log,
                   internal_session>>

\* EightSleep.stop()
Stop ==
    /\ IF internal_session /\ api_session # None
       THEN /\ closed' = closed \cup {api_session}
            /\ api_session' = None
       ELSE UNCHANGED <<api_session, closed>>
    /\ Finished(Called("stop", "", NoExc), <<>>, ReturnNone)
    /\ UNCHANGED <<device_json, session, devices, pod, users, log,
                   internal_session>>

\* EightSleep.handle_device_json(data)
HandleDeviceJson(data) ==
    /\ device_json' = Pushed(device_json, data)
    /\ log' = Append(log, data)
    /\ Finished(Called("handle_device_json", "", NoExc), <<>>, ReturnNone)
    /\ UNCHANGED <<session, devices, pod, users, http>>

\* update_device_data without the test for a missing response: what the
\* device request returned is pushed and evaluated even when it is None.
UpdateDeviceDataUnchecked(expiring, reg, device_resp) ==
    IF devices = None \/ session = None
    THEN /\ Finished(Called("update_device_data", "", "TypeError"),
                     <<>>, ReturnNone)
         /\ UNCHANGED <<device_json, session, devices, pod, users, log, http>>
    ELSE IF api_session = None
    THEN /\ Finished(Called("update_device_data", "", "AttributeError"),
                     <<>>, ReturnNone)
         /\ UNCHANGED <<device_json, session, devices, pod, users, log, http>>
    ELSE /\ session' = IF expiring THEN fetch_token(session, reg) ELSE session
         /\ sent' = (IF expiring THEN <<LoginRequest>> ELSE <<>>)
                        \o <<DeviceDataRequest(session_token(session'))>>
         /\ returned' = ReturnNone
         /\ \E r \in {evaluate_users(Pushed(device_json, device_resp),
                                       pod, users, UserOrder)} :
                /\ device_json' = Pushed(device_json, device_resp)
                /\ log' = IF device_resp = None THEN log
                          ELSE Append(log, device_resp)
                /\ users' = r.users
                /\ last' = Called("update_device_data", "", r.exc)
         /\ UNCHANGED <<devices, pod, http>>

\* EightSleep.update_device_data().  expiring: the token has less than an
\* hour left; reg: what the login request returns if it is made;
\* device_resp: the result of the device request (None: it failed).
UpdateDeviceData(expiring, reg, device_resp) ==
    IF devices = None \/ session = None
    THEN \* self.deviceid / strptime(self._expdate) on None
         /\ Finished(Called("update_device_data", "", "TypeError"),
                     <<>>, ReturnNone)
         /\ UNCHANGED <<device_json, session, devices, pod, users, log, http>>
    ELSE IF api_session = None
    THEN \* the first request: self._api_session.post or .get on None
         /\ Finished(Called("update_device_data", "", "AttributeError"),
                     <<>>, ReturnNone)
         /\ UNCHANGED <<device_json, session, devices, pod, users, log, http>>
    ELSE /\ session' = IF expiring THEN fetch_token(session, reg) ELSE session
         /\ sent' = (IF expiring THEN <<LoginRequest>> ELSE <<>>)
                        \o <<DeviceDataRequest(session_token(session'))>>
         /\ returned' = ReturnNone
         /\ IF device_resp = None
            THEN /\ last' = Called("update_device_data", "", NoExc)
                 /\ UNCHANGED <<device_json, users, log>>
            ELSE \E r \in {evaluate_users(Pushed(device_json, device_resp),
                                            pod, users, UserOrder)} :
                     /\ device_json' = Pushed(device_json, device_resp)
                     /\ log' = Append(log, device_resp)
                     /\ users' = r.users
                     /\ last' = Called("update_device_data", "", r.exc)
         /\ UNCHANGED <<devices, pod, http>>

\* EightUser.dynamic_presence(), called on the user of `side`.
DynamicPresence(side) ==
    /\ side \in DOMAIN users
    /\ \E r \in {dynamic_presence(device_json, pod, users[side])} :
           /\ users' = [users EXCEPT ![side] = r.user]
           /\ Finished(Called("dynamic_presence", side, r.exc),
                       <<>>, ReturnNone)
    /\ UNCHANGED <<device_json, session, devices, pod, log, http>>

\* A read of the property EightUser.heating_level of the user of `side`.
ReadHeatingLevel(side) ==
    /\ side \in DOMAIN users
    /\ LET level == heating_level(device_json, side)
       IN  /\ users' = [users EXCEPT ![side].observed_low =
                           observed_low_after_read(device_json, side, @)]
           /\ Finished(Called("heating_level", side,
                              IF IsRaise(level) THEN level.exc ELSE NoExc),
                       <<>>, level)
    /\ UNCHANGED <<device_json, session, devices, pod, log, http>>

\* EightSleep.api_request as EightUser calls it: the request goes out on the
\* client session and yields the decoded response, or None when it failed.
api_request(client, resp) ==
    IF client = None THEN Raise("AttributeError")
    ELSE IF resp = None THEN ReturnNone
    ELSE Return(resp)

\* A PUT request of set_heating_level with its payload.
PutRequest(token, data) ==
    [endpoint |-> "put devices/id", token |-> token, data |-> data]

\* The clamp without its upper end: levels over 100 are sent as they are.
clamped_level_floor_only(is_pod, level) ==
    IF is_pod
    THEN (IF level < -100 THEN -100 ELSE level)
    ELSE (IF level < 0 THEN 0 ELSE level)

\* set_heating_level: the level it sends for the level asked for.
clamped_level(is_pod, level) ==
    LET low == IF is_pod
               THEN (IF level < -100 THEN -100 ELSE level)
               ELSE (IF level < 0 THEN 0 ELSE level)
    IN  IF low > 100 THEN 100 ELSE low

\* set_heating_level: the payloads of its two requests.
data_duration(side, duration) == (side \o "HeatingDuration") :> duration
data_level(side, level) == TargetHeatingLevelKey(side) :> level

\* The list after set_heating_level handled the response set_heat of one of
\* its two requests.
set_heat_handled(dj, set_heat) ==
    IF set_heat = ReturnNone THEN dj ELSE Pushed(dj, set_heat.val)

\* The log of pushes after the same.
set_heat_logged(pushes, set_heat) ==
    IF set_heat = ReturnNone THEN pushes ELSE Append(pushes, set_heat.val)

\* set_heating_level giving up after a failed duration request: the level
\* request is sent only when the duration request succeeded.
SetHeatingLevelGated(side, level, duration, duration_resp, level_resp) ==
    /\ side \in DOMAIN users
    /\ IF IsRaise(api_request(api_session, duration_resp))
       THEN /\ Finished(Called("set_heating_level", side, "AttributeError"),
                        <<>>, ReturnNone)
            /\ UNCHANGED <<device_json, log>>
       ELSE IF duration_resp = None
       THEN /\ Finished(Called("set_heating_level", side, NoExc),
                        <<PutRequest(session_token(session),
                                     data_duration(side, duration))>>,
                        ReturnNone)
            /\ UNCHANGED <<device_json, log>>
       ELSE /\ device_json' =
                   set_heat_handled(
                       set_heat_handled(device_json,
                           api_request(api_session, duration_resp)),
                       api_request(api_session, level_resp))
            /\ log' =
                   set_heat_logged(
                       set_heat_logged(log,
                           api_request(api_session, duration_resp)),
                       api_request(api_session, level_resp))
            /\ Finished(Called("set_heating_level", side, NoExc),
                        <<PutRequest(session_token(session),
                                     data_duration(side, duration)),
                          PutRequest(session_token(session),
                                     data_level(side,
                                         clamped_level(pod, level)))>>,
                        ReturnNone)
    /\ UNCHANGED <<session, devices, pod, users, http>>

\* EightUser.set_heating_level(level, duration).  duration_resp, level_resp:
\* the "device" JSON of the responses to the duration and the level request
\* (None: the request failed).
SetHeatingLevel(side, level, duration, duration_resp, level_resp) ==
    /\ side \in DOMAIN users
    /\ IF IsRaise(api_request(api_session, duration_resp))
       THEN /\ Finished(Called("set_heating_level", side, "AttributeError"),
                        <<>>, ReturnNone)
            /\ UNCHANGED <<device_json, log>>
       ELSE /\ device_json' =
                   set_heat_handled(
                       set_heat_handled(device_json,
                           api_request(api_session, duration_resp)),
                       api_request(api_session, level_resp))
            /\ log' =
                   set_heat_logged(
                       set_heat_logged(log,
                           api_request(api_session, duration_resp)),
                       api_request(api_session, level_resp))
            /\ Finished(Called("set_heating_level", side, NoExc),
                        <<PutRequest(session_token(session),
                                     data_duration(side, duration)),
                          PutRequest(session_token(session),
                                     data_level(side,
                                         clamped_level(pod, level)))>>,
                        ReturnNone)
    /\ UNCHANGED <<session, devices, pod, users, http>>

-----------------------------------------------------------------------------
(* Specifications *)

\* What the device request can return while fewer than max snapshots were pushed.
Responses(S, max) == {None} \cup (IF Len(log) < max THEN S ELSE {})

StartStep ==
    \E reg \in LoginResults, dlist \in DeviceLists, data \in Assignments :
        Start(reg, dlist, data)

\* Every operation, on the snapshots of Spec.
Next ==
    \/ StartStep
    \/ \E expiring \in BOOLEAN, reg \in LoginResults,
          device_resp \in Responses(Snapshots, MaxPushes) :
            UpdateDeviceData(expiring, reg, device_resp)
    \/ \E data \in Responses(Snapshots, MaxPushes) \ {None} :
            HandleDeviceJson(data)
    \/ \E side \in Sides : DynamicPresence(side)
    \/ \E side \in Sides : ReadHeatingLevel(side)

Spec == Init /\ [][Next]_vars

\* The session and its list over a long run of pushes.
NextHistory ==
    \/ StartStep
    \/ \E expiring \in BOOLEAN, reg \in LoginResults,
          device_resp \in Responses(HistorySnapshots, MaxHistoryPushes) :
            UpdateDeviceData(expiring, reg, device_resp)
    \/ \E data \in Responses(HistorySnapshots, MaxHistoryPushes) \ {None} :
            HandleDeviceJson(data)

SpecHistory == Init /\ [][NextHistory]_vars

\* The polling cycle alone: start(), then update_device_data() per poll.
NextPolling ==
    \/ StartStep
    \/ \E expiring \in BOOLEAN, reg \in LoginResults,
          device_resp \in Responses(Snapshots, MaxPushes) :
            UpdateDeviceData(expiring, reg, device_resp)

SpecPolling == Init /\ [][NextPolling]_vars

\* start() with every request answered, on a bed with one sleeper.
RulesStart ==
    \E reg \in LoginResults \ {None}, dlist \in DeviceLists \ {None},
       data \in RuleAssignments :
        Start(reg, dlist, data)

\* The presence rules around the rising edge: polls with a token that is
\* not about to expire, and evaluations in between.
NextRise ==
    \/ RulesStart
    \/ \E device_resp \in Responses(RiseSnapshots, MaxRulePushes) \ {None} :
            UpdateDeviceData(FALSE, None, device_resp)
    \/ \E side \in Sides : DynamicPresence(side)

SpecRise == Init /\ [][NextRise]_vars

\* The presence rules around the falling edge and the floor.
NextFall ==
    \/ RulesStart
    \/ \E device_resp \in Responses(FallSnapshots, MaxRulePushes) \ {None} :
            UpdateDeviceData(FALSE, None, device_resp)
    \/ \E side \in Sides : DynamicPresence(side)

SpecFall == Init /\ [][NextFall]_vars

\* The presence rules around the activation level.
NextHigh ==
    \/ RulesStart
    \/ \E device_resp \in Responses(HighSnapshots, MaxHighPushes) \ {None} :
            UpdateDeviceData(FALSE, None, device_resp)
    \/ \E side \in Sides : DynamicPresence(side)

SpecHigh == Init /\ [][NextHigh]_vars

\* The responses to the two requests of one set_heating_level: each failed
\* or carrying a device JSON, within the pushes left.
CommandResponses ==
    { rs \in ({None} \cup Snapshots) \X ({None} \cup Snapshots) :
        Len(log) + Cardinality({i \in 1..2 : rs[i] # None})
            <= MaxCommandPushes }

\* The level and the duration (seconds) asked for between polls.
PollingLevels == {50}
PollingDurations == {3600}

\* The polling cycle and the heating commands of the users.
NextCommands ==
    \/ StartStep
    \/ \E expiring \in BOOLEAN, reg \in LoginResults,
          device_resp \in Responses(Snapshots, MaxCommandPushes) :
            UpdateDeviceData(expiring, reg, device_resp)
    \/ \E side \in Sides, level \in PollingLevels,
          duration \in PollingDurations, rs \in CommandResponses :
            SetHeatingLevel(side, level, duration, rs[1], rs[2])

SpecCommands == Init /\ [][NextCommands]_vars

\* The levels and the durations (seconds) a user asks for.
CommandLevels == {-150, -101, -100, -99, -1, 0, 1, 99, 100, 101, 150}
Durations == {0, 3600}

\* The responses to the two requests of one set_heating_level in SpecLevels.
LevelResponses ==
    { rs \in {None, Snapshot(Warm, Mid)} \X {None, Snapshot(Warm, Mid)} :
        Len(log) + Cardinality({i \in 1..2 : rs[i] # None})
            <= MaxLevelPushes }

\* The heating commands alone, over the levels a user can ask for.
NextLevels ==
    \/ StartStep
    \/ \E side \in Sides, level \in CommandLevels, duration \in Durations,
          rs \in LevelResponses :
            SetHeatingLevel(side, level, duration, rs[1], rs[2])

SpecLevels == Init /\ [][NextLevels]_vars

\* A client session the caller passes to the constructor.
CallerSession == ClientSession("caller", 0)

\* EightSleep(email, password, timezone, client_session=...), with or
\* without a client session of the caller.
InitSession == \E client_session \in {None, CallerSession} :
                   Constructed(client_session)

\* What the login request of a token renewal returns: no result, or a new
\* token.
Renewals ==
    { None, [userId |-> "u1", token |-> "t2", expirationDate |-> "e2"] }

\* The seconds the token has left when a cycle starts.
Remaining == {0, 3599, 3600, 7200}

\* The life of a session: start(), polling with token renewal, stop().
NextSession ==
    \/ Cardinality(closed) < MaxSessions /\ StartStep
    \/ \E remaining \in Remaining, reg \in Renewals,
          device_resp \in Responses(HistorySnapshots, MaxSessionPushes) :
            UpdateDeviceData(TokenExpiring(remaining), reg, device_resp)
    \/ Stop

SpecSession == InitSession /\ [][NextSession]_vars

-----------------------------------------------------------------------------
(* Properties *)

\* The slots of the list that hold a snapshot.
Held == {i \in DOMAIN device_json : device_json[i] # None}

\* The snapshot pushed k pushes ago (k = 0: the latest).
Recent(k) == log[Len(log) - k]

SetMin(S) == CHOOSE m \in S : \A x \in S : m <= x

\* The current snapshot exists and lacks the side's heating level or target.
NoData(dj, side) ==
    /\ device_data(dj) # None
    /\ \/ HeatingLevelKey(side) \notin DOMAIN device_data(dj)
       \/ TargetHeatingLevelKey(side) \notin DOMAIN device_data(dj)

\* The step evaluated the side: dynamic_presence() on its user, or a poll.
EvaluationOf(side) ==
    \/ last'.op = "dynamic_presence" /\ last'.side = side
    \/ last'.op = "update_device_data"

\* C1: after any sequence of pushes the list holds at most 10 snapshots and
\* has no index 10 or beyond; once more than 10 were pushed it holds exactly 10.
C1_HistoryBounded ==
    /\ \A i \in DOMAIN device_json : i - 1 < 10
    /\ Cardinality(Held) <= 10
    /\ Len(log) > 10 => Cardinality(Held) = 10

C1_Witness == Len(log) > 10 /\ Cardinality(Held) = 10

\* C2: the list is most-recent-first: for every k in 0..9 with at least k + 1
\* pushes made, index k holds the (k+1)-th most recently pushed snapshot.
C2_MostRecentFirst ==
    \A k \in 0..9 : k + 1 <= Len(log) => device_json[k + 1] = Recent(k)

C2_Witness ==
    /\ Len(log) > 10
    /\ device_json[10] = Recent(9)
    /\ device_json[1] # device_json[2]
    /\ log[1] # device_json[10]

\* C3: the list is created empty, and after k < 10 pushes exactly the
\* indices 0..k-1 hold snapshots while the indices k..9 hold none.
C3_StartsEmpty ==
    Len(log) < 10 =>
        /\ Len(device_json) = 10
        /\ \A i \in 0..9 : device_json[i + 1] # None <=> i < Len(log)

C3_Witness ==
    /\ Len(log) = 3
    /\ device_json[3] # None
    /\ device_json[4] = None

\* What C4 says past_heating_level(n) returns for the side.
C4_Expected(side, n) ==
    IF n > 9 \/ Len(log) < n + 1 THEN 0
    ELSE IF HeatingLevelKey(side) \notin DOMAIN Recent(n) THEN 0
    ELSE Recent(n)[HeatingLevelKey(side)]

\* C4: for every side and every n, past_heating_level(n) returns 0 without
\* raising when n > 9, when fewer than n + 1 snapshots were pushed or when the
\* snapshot at index n lacks the side's heating level; otherwise it returns
\* the heating level stored at index n.
C4_PastHeatingLevelTotal ==
    \A side \in DOMAIN users, n \in 0..11 :
        past_heating_level(device_json, side, n) = Return(C4_Expected(side, n))

\* C5: dynamic_presence never raises: an evaluation that has a current
\* snapshot completes normally, however few snapshots were pushed and
\* whichever fields they miss.
C5_DynamicPresenceNeverRaises ==
    Len(log) >= 1 =>
        /\ last.op = "dynamic_presence" => last.exc = NoExc
        /\ last.op = "update_device_data" => last.exc # "AttributeError"

\* C6: if the current snapshot lacks the side's heating level or its target
\* heating level, an evaluation leaves the side's presence as it was.
C6_NoDataNoOp ==
    [][\A side \in DOMAIN users :
          EvaluationOf(side) /\ NoData(device_json', side)
              => users'[side].presence = users[side].presence]_vars

C6_Witness ==
    /\ last.op = "dynamic_presence"
    /\ pod
    /\ NoData(device_json, last.side)
    /\ users[last.side].presence

\* C7: a freshly created user has presence false and observed_low 0, and
\* presence turns true only in a step that evaluates that side on a current
\* heating level above the activation band's floor of 25.
C7_FreshSideAbsent ==
    [][/\ \A side \in DOMAIN users' \ DOMAIN users :
              ~users'[side].presence /\ users'[side].observed_low = 0
       /\ \A side \in DOMAIN users' \cap DOMAIN users :
              ~users[side].presence /\ users'[side].presence
                  => /\ EvaluationOf(side)
                     /\ ~NoData(device_json', side)
                     /\ device_data(device_json')[HeatingLevelKey(side)]
                            - (IF pod THEN users'[side].observed_low ELSE 0) > 25
      ]_vars

C7_Witness ==
    /\ last.op = "update_device_data"
    /\ \E side \in DOMAIN users : users[side].presence
    /\ \E side \in DOMAIN users : ~users[side].presence

\* C8: observed_low of a user never increases, over any step.
C8_ObservedLowNeverIncreases ==
    [][\A side \in DOMAIN users' \cap DOMAIN users :
          users'[side].observed_low <= users[side].observed_low]_vars

C8_Witness ==
    \E side \in DOMAIN users :
        /\ users[side].observed_low = -20
        /\ \E i \in DOMAIN log :
               /\ HeatingLevelKey(side) \in DOMAIN log[i]
               /\ log[i][HeatingLevelKey(side)] = -10

\* The heating levels of the side in the snapshots polled so far.
LevelsFed(side) ==
    {log[i][HeatingLevelKey(side)] :
        i \in {j \in DOMAIN log : HeatingLevelKey(side) \in DOMAIN log[j]}}

\* C9: on a pod, after any sequence of polls (one pushed snapshot and one
\* evaluation each), observed_low is the minimum of the readings seen so far,
\* counted from its initial 0.
C9_ObservedLowIsMinimum ==
    pod => \A side \in DOMAIN users :
               users[side].observed_low = SetMin(LevelsFed(side) \cup {0})

\* C10: every evaluation whose current snapshot carries the side's heating
\* level leaves observed_low = min(observed_low before, heating level), also
\* when the target heating level is absent.
C10_ObservedLowRatchet ==
    [][\A side \in DOMAIN users :
          /\ last'.op = "dynamic_presence" /\ last'.side = side
          /\ device_data(device_json) # None
          /\ HeatingLevelKey(side) \in DOMAIN device_data(device_json)
          => users'[side].observed_low =
                 Min(users[side].observed_low,
                     device_data(device_json)[HeatingLevelKey(side)])]_vars

-----------------------------------------------------------------------------
(* Properties of the presence rules *)

\* The current snapshot carries the side's heating level and its target.
HasData(dj, side) == device_data(dj) # None /\ ~NoData(dj, side)

Level(dj, side) == device_data(dj)[HeatingLevelKey(side)]
Target(dj, side) == device_data(dj)[TargetHeatingLevelKey(side)]

\* The device reports the side's heater or cooler as running.
Reports(dj, side) ==
    /\ NowHeatingKey(side) \in DOMAIN device_data(dj)
    /\ device_data(dj)[NowHeatingKey(side)]

\* nowHeating and nowCooling: running towards a target above or below 0.
Heating(dj, side) == Reports(dj, side) /\ Target(dj, side) > 0
Cooling(dj, side) == Reports(dj, side) /\ Target(dj, side) < 0

\* workingLevel of an evaluation that found the low at `low`: the level
\* over the low after the level was taken into it.
Working(dj, side, low) == Level(dj, side) - Min(low, Level(dj, side))

\* pastHeatingLevel(n) as the specification defines it: the level at index
\* n of the list, 0 where the list or the snapshot has none.
PastLevel(dj, side, n) ==
    IF n > 9 THEN 0
    ELSE IF dj[n + 1] = None THEN 0
    ELSE IF HeatingLevelKey(side) \notin DOMAIN dj[n + 1] THEN 0
    ELSE dj[n + 1][HeatingLevelKey(side)]

\* The three consecutive deltas over the last four samples.
Rising(dj, side) ==
    \A n \in 0..2 : PastLevel(dj, side, n) - PastLevel(dj, side, n + 1) >= 2
Falling(dj, side) ==
    \A n \in 0..2 : PastLevel(dj, side, n) - PastLevel(dj, side, n + 1) < 0

\* The step ran dynamic_presence() of the side's user on a current snapshot
\* with a level and a target: called directly, or from a poll that pushed a
\* snapshot and whose loop reached the side (it is the first user of the
\* loop, or the loop ran to its end).
Evaluated(side) ==
    /\ side \in DOMAIN users
    /\ HasData(device_json', side)
    /\ \/ last'.op = "dynamic_presence" /\ last'.side = side
       \/ /\ last'.op = "update_device_data"
          /\ Len(log') = Len(log) + 1
          /\ side = "right" \/ "right" \notin DOMAIN users \/ last'.exc = NoExc

\* The latest poll pushed a snapshot with reading rd on both sides, and its
\* evaluations returned.
PolledOn(rd) ==
    /\ last = Called("update_device_data", "", NoExc)
    /\ Len(log) >= 1
    /\ Recent(0) = Snapshot(rd, rd)

\* C11: on a device without cooling, an evaluation of a side that is present
\* and whose current heating level is at most 15 (with a target) makes the
\* side absent, whatever the history, the target and the heating flag are.
C11_PlainFailsafeFloor ==
    [][\A side \in Sides :
          /\ Evaluated(side)
          /\ ~pod
          /\ users[side].presence
          /\ Level(device_json', side) <= 15
          => ~users'[side].presence]_vars

\* A side that a poll at 60 had made present is absent after the poll at 15
\* with the heater running towards 20.
C11_Witness ==
    /\ ~pod
    /\ PolledOn(Reading(15, 20, TRUE))
    /\ Len(log) >= 4
    /\ Recent(1) = Snapshot(Idle(60), Idle(60))
    /\ \A side \in DOMAIN users : ~users[side].presence

\* C12: on a device without cooling, an evaluation of an absent side whose
\* current heating level is in the band 25 < level <= 50, with heating not
\* active and the three deltas past(0)-past(1), past(1)-past(2),
\* past(2)-past(3) each at least 2, makes the side present.
C12_PlainRisingEdge ==
    [][\A side \in Sides :
          /\ Evaluated(side)
          /\ ~pod
          /\ ~users[side].presence
          /\ Level(device_json', side) > 25
          /\ Level(device_json', side) <= 50
          /\ ~Heating(device_json', side)
          /\ Rising(device_json', side)
          => users'[side].presence]_vars

\* C13: on a device without cooling, an evaluation of an absent side whose
\* current heating level is in the band 25 < level <= 50 leaves the side
\* absent if at least one of the three deltas is below 2, whatever the
\* heating flag and the target are.
C13_PlainNoFalseRise ==
    [][\A side \in Sides :
          /\ Evaluated(side)
          /\ ~pod
          /\ ~users[side].presence
          /\ Level(device_json', side) > 25
          /\ Level(device_json', side) <= 50
          /\ ~Rising(device_json', side)
          => ~users'[side].presence]_vars

\* Four polls at -10, 26, 28 and 29, the last with the heater running
\* towards 10: the deltas are 1, 2 and 36 and the side is absent.
C13_Witness ==
    /\ ~pod
    /\ PolledOn(Reading(29, 10, TRUE))
    /\ Len(log) = 4
    /\ Recent(1) = Snapshot(Idle(28), Idle(28))
    /\ Recent(2) = Snapshot(Idle(26), Idle(26))
    /\ Recent(3) = Snapshot(Idle(-10), Idle(-10))
    /\ \A side \in DOMAIN users : ~users[side].presence

\* workingLevel of the evaluation the step makes for the side.
WorkingNow(side) == Working(device_json', side, users[side].observed_low)

\* C14: on a pod, an evaluation of an absent side whose workingLevel
\* (heating level minus observed low) is above 50 makes the side present if
\* and only if neither heating nor cooling is active, or heating is active
\* and workingLevel - target >= 8, or cooling is active and the raw heating
\* level plus the target is >= 8.
C14_PodActivation ==
    [][\A side \in Sides :
          /\ Evaluated(side)
          /\ pod
          /\ ~users[side].presence
          /\ WorkingNow(side) > 50
          => (users'[side].presence <=>
                \/ ~Heating(device_json', side) /\ ~Cooling(device_json', side)
                \/ /\ Heating(device_json', side)
                   /\ WorkingNow(side) - Target(device_json', side) >= 8
                \/ /\ Cooling(device_json', side)
                   /\ Level(device_json', side)
                          + Target(device_json', side) >= 8)]_vars

\* A pod side with a low of -40 is present after a poll at level 15 with
\* nothing running: its workingLevel is 55.
C14_Witness ==
    /\ pod
    /\ PolledOn(Idle(15))
    /\ Len(log) = 2
    /\ Recent(1) = Snapshot(Idle(-40), Idle(-40))
    /\ \A side \in DOMAIN users :
           users[side].presence /\ users[side].observed_low = -40

\* C15: on a pod, an evaluation of an absent side with 25 < workingLevel <= 50
\* makes the side present if and only if the three deltas of the raw past
\* levels are each at least 2 and heating is not active or
\* workingLevel - target >= 8.
C15_PodRisingEdge ==
    [][\A side \in Sides :
          /\ Evaluated(side)
          /\ pod
          /\ ~users[side].presence
          /\ WorkingNow(side) > 25
          /\ WorkingNow(side) <= 50
          => (users'[side].presence <=>
                /\ Rising(device_json', side)
                /\ \/ ~Heating(device_json', side)
                   \/ WorkingNow(side) - Target(device_json', side) >= 8)]_vars

\* C16: on a pod, an evaluation of a side that is present and whose
\* workingLevel (heating level minus observed low) is at most 15 (with a
\* target) makes the side absent, whatever the history, the target and the
\* heating and cooling flags are.
C16_PodFailsafeFloor ==
    [][\A side \in Sides :
          /\ Evaluated(side)
          /\ pod
          /\ users[side].presence
          /\ WorkingNow(side) <= 15
          => ~users'[side].presence]_vars

\* A pod side with a low of -40 that a poll at 60 had made present is absent
\* after a poll at -40: its workingLevel is 0.
C16_Witness ==
    /\ pod
    /\ PolledOn(Idle(-40))
    /\ Len(log) = 3
    /\ Recent(1) = Snapshot(Idle(60), Idle(60))
    /\ Recent(2) = Snapshot(Idle(-40), Idle(-40))
    /\ \A side \in DOMAIN users :
           ~users[side].presence /\ users[side].observed_low = -40

\* C17: on a pod, an evaluation of a present side with workingLevel > 15
\* makes the side absent if and only if workingLevel < 35 and the three
\* deltas past(0)-past(1), past(1)-past(2), past(2)-past(3) are each below
\* 0; with workingLevel >= 35 the side stays present for every history.
C17_PodFallingEdge ==
    [][\A side \in Sides :
          /\ Evaluated(side)
          /\ pod
          /\ users[side].presence
          /\ WorkingNow(side) > 15
          => (~users'[side].presence <=>
                WorkingNow(side) < 35 /\ Falling(device_json', side))]_vars

\* Four polls at 60, 52, 50 and 30 on a pod: the side the first poll made
\* present is absent.
C17_Witness ==
    /\ pod
    /\ PolledOn(Idle(30))
    /\ Len(log) = 4
    /\ Recent(1) = Snapshot(Idle(50), Idle(50))
    /\ Recent(2) = Snapshot(Idle(52), Idle(52))
    /\ Recent(3) = Snapshot(Idle(60), Idle(60))
    /\ \A side \in DOMAIN users :
           ~users[side].presence /\ users[side].observed_low = 0

\* C18: on a device without cooling, an evaluation of a present side with
\* heating level > 15 makes the side absent if and only if the level is
\* below 50 and the three deltas are each below 0; with a level of 50 or
\* more the side stays present for every history.
C18_PlainFallingEdge ==
    [][\A side \in Sides :
          /\ Evaluated(side)
          /\ ~pod
          /\ users[side].presence
          /\ Level(device_json', side) > 15
          => (~users'[side].presence <=>
                /\ Level(device_json', side) < 50
                /\ Falling(device_json', side))]_vars

\* Four polls at 60, 52, 50 and 40 on a device without cooling: the side
\* the first poll made present is absent.
C18_Witness ==
    /\ ~pod
    /\ PolledOn(Idle(40))
    /\ Len(log) = 4
    /\ Recent(1) = Snapshot(Idle(50), Idle(50))
    /\ Recent(2) = Snapshot(Idle(52), Idle(52))
    /\ Recent(3) = Snapshot(Idle(60), Idle(60))
    /\ \A side \in DOMAIN users : ~users[side].presence

\* C19: on a device without cooling, an evaluation of an absent side with
\* heating level > 50 makes the side present if and only if heating is not
\* active or the level exceeds the target by at least 8, whatever the
\* history and observed_low are.
C19_PlainActivation ==
    [][\A side \in Sides :
          /\ Evaluated(side)
          /\ ~pod
          /\ ~users[side].presence
          /\ Level(device_json', side) > 50
          => (users'[side].presence <=>
                \/ ~Heating(device_json', side)
                \/ Level(device_json', side)
                       - Target(device_json', side) >= 8)]_vars

\* A side with a low of -40 stays absent at level 60 with the heater
\* running towards 55, although the level is 100 over the low.
C19_Witness ==
    /\ ~pod
    /\ PolledOn(Reading(60, 55, TRUE))
    /\ Len(log) = 2
    /\ Recent(1) = Snapshot(Idle(-40), Idle(-40))
    /\ \A side \in DOMAIN users :
           ~users[side].presence /\ users[side].observed_low = -40

\* The level the rules of the side's device compare with their thresholds.
UsedLevel(side) ==
    IF pod THEN WorkingNow(side) ELSE Level(device_json', side)

\* C20: an evaluation of an absent side whose level (workingLevel on a pod,
\* the raw heating level otherwise) is at most 25 leaves the side absent,
\* for every history, target and heating or cooling flag.
C20_AbsentStaysAbsent ==
    [][\A side \in Sides :
          /\ Evaluated(side)
          /\ ~users[side].presence
          /\ UsedLevel(side) <= 25
          => ~users'[side].presence]_vars

\* Polls at -40, at 15 with the heater running and at 25 on a device
\* without cooling: the side is absent after each.
C20_Witness ==
    /\ ~pod
    /\ PolledOn(Idle(25))
    /\ Len(log) = 3
    /\ Recent(1) = Snapshot(Reading(15, 20, TRUE), Reading(15, 20, TRUE))
    /\ Recent(2) = Snapshot(Idle(-40), Idle(-40))
    /\ \A side \in DOMAIN users : ~users[side].presence

-----------------------------------------------------------------------------
(* Properties of the session and its polling cycle *)

\* The evaluation step: dynamic_presence called directly, or by the loop of
\* update_device_data.
EvaluationStep == last'.op \in {"dynamic_presence", "update_device_data"}

\* C21: a side's presence and observed_low are mutated only by the
\* evaluation step (dynamic_presence): every other operation on an assigned
\* side (pushing a snapshot, reading heating_level) leaves both unchanged.
C21_OnlyEvaluationMutates ==
    [][\A side \in DOMAIN users \cap DOMAIN users' :
          ~EvaluationStep =>
              /\ users'[side].presence = users[side].presence
              /\ users'[side].observed_low = users[side].observed_low]_vars

\* The current snapshot carries both inputs of nowHeating and nowCooling for
\* the side: its target heating level and its device-active flag.
HasActivity(dj, side) ==
    /\ TargetHeatingLevelKey(side) \in DOMAIN device_data(dj)
    /\ NowHeatingKey(side) \in DOMAIN device_data(dj)

\* C26: with a current snapshot, now_heating is (device active and
\* target > 0) and now_cooling is (device active and target < 0); both
\* return None, without raising, when the target or the flag is absent.
C26_NowHeatingCooling ==
    \A side \in DOMAIN users :
        device_data(device_json) # None =>
            IF HasActivity(device_json, side)
            THEN /\ now_heating(device_json, side)
                        = Return(Heating(device_json, side))
                 /\ now_cooling(device_json, side)
                        = Return(Cooling(device_json, side))
            ELSE /\ now_heating(device_json, side) = ReturnNone
                 /\ now_cooling(device_json, side) = ReturnNone

\* The other side of the bed.
Other(side) == IF side = "left" THEN "right" ELSE "left"

\* A polling cycle that pushed a snapshot.
PushingCycle == last'.op = "update_device_data" /\ Len(log') = Len(log) + 1

\* C25: evaluating one side leaves the other side's presence and
\* observed_low unchanged, and after a cycle both sides are in the state
\* they reach when the sides are evaluated in the other order.
C25_SideIndependence ==
    [][/\ \A side \in DOMAIN users :
              (last'.op = "dynamic_presence" /\ last'.side = side
                   /\ Other(side) \in DOMAIN users)
                  => users'[Other(side)] = users[Other(side)]
       /\ PushingCycle =>
              users' = evaluate_users(device_json', pod, users,
                                      <<"left", "right">>).users]_vars

\* C23: in a polling cycle with a successful fetch the snapshot is pushed
\* first and dynamic_presence then runs once for every assigned side on the
\* updated list: index 0 holds the snapshot just fetched, and every side is
\* left as one evaluation on that list leaves it.
C23_CycleOrdering ==
    [][PushingCycle =>
          /\ device_data(device_json') = log'[Len(log')]
          /\ \A side \in DOMAIN users :
                users'[side]
                    = dynamic_presence(device_json', pod, users[side]).user]_vars

\* A call of update_device_data whose device-data request returned nothing.
FailedFetch ==
    \E expiring \in BOOLEAN, reg \in LoginResults :
        UpdateDeviceData(expiring, reg, None)

\* C24: when the telemetry fetch of a cycle fails, update_device_data
\* advances no core state: the list of snapshots and every side's presence
\* and observed_low are after the call what they were before it.
C24_FailedFetchKeepsState ==
    [][FailedFetch =>
          /\ device_json' = device_json
          /\ log' = log
          /\ users' = users]_vars

\* Both sides are assigned and a cycle sent its device-data request before
\* any snapshot was ever pushed: the fetch of that cycle failed.
C24_Witness ==
    /\ last = Called("update_device_data", "", NoExc)
    /\ sent # <<>>
    /\ log = <<>>
    /\ DOMAIN users = Sides

\* C22: the history is mutated only by the ingestion step of
\* update_device_data: a step that changes the list of snapshots is a polling
\* cycle, and it adds exactly one snapshot; no other operation
\* (set_heating_level in particular) inserts into it or evicts from it.
C22_OnlyPollingPushes ==
    [][(device_json' # device_json \/ log' # log) => PushingCycle]_vars

\* The client session is one the library created in start().
OwnSession == api_session # None /\ api_session.owner = "library"

\* C27: stop() never closes a client session supplied by the caller: it
\* closes only a session start() created, which is then the one session
\* that becomes closed, and a stop() that finds no session of the library
\* open (a further stop() after the close) changes nothing.
C27_StopClosesOnlyOwn ==
    [][Stop =>
          /\ \A s \in closed' : s.owner = "library"
          /\ IF OwnSession
             THEN closed' = closed \cup {api_session} /\ api_session' = None
             ELSE closed' = closed /\ api_session' = api_session]_vars

\* stop() was called on a started session that uses the caller's client
\* session.
C27_Witness ==
    /\ last = Called("stop", "", NoExc)
    /\ api_session = CallerSession
    /\ session # None

\* A call of start() whose login request returned no result.
FailedLogin ==
    \E dlist \in DeviceLists, data \in Assignments : Start(None, dlist, data)

OneHour == 3600

\* The session is started and its client session is open.
SessionOpen == session # None /\ devices # None /\ api_session # None

\* A call of update_device_data made with `remaining` seconds of token life.
CycleWith(remaining) ==
    \E reg \in Renewals,
       device_resp \in Responses(HistorySnapshots, MaxSessionPushes) :
        UpdateDeviceData(TokenExpiring(remaining), reg, device_resp)

\* C29: in update_device_data on an open session, when the token expires in
\* less than one hour the login request is sent before the device-data
\* request of the cycle; when it has an hour or more left, the device-data
\* request is the only request.
C29_RenewalOrder ==
    [][\A remaining \in Remaining :
          (SessionOpen /\ CycleWith(remaining)) =>
              IF remaining < OneHour
              THEN /\ Len(sent') = 2
                   /\ sent'[1] = LoginRequest
                   /\ sent'[2] = DeviceDataRequest(session_token(session'))
              ELSE sent' = <<DeviceDataRequest(session_token(session))>>]_vars

\* A cycle renewed the token and then fetched the device data with it.
C29_Witness ==
    /\ last = Called("update_device_data", "", NoExc)
    /\ sent = <<LoginRequest, DeviceDataRequest("t2")>>
    /\ session.token = "t2"
    /\ Len(log) >= 1

\* A call of update_device_data that finds the token expiring and whose
\* login request returns no result.
FailedRenewal ==
    \E device_resp \in Responses(HistorySnapshots, MaxSessionPushes) :
        UpdateDeviceData(TRUE, None, device_resp)

\* C30: a failed fetch_token leaves the stored token, user id and expiration
\* date unchanged, and update_device_data goes on to send the device-data
\* request of the cycle with the old token.
C30_FailedRenewalKeepsToken ==
    [][(SessionOpen /\ FailedRenewal) =>
          /\ session' = session
          /\ sent' = <<LoginRequest,
                       DeviceDataRequest(session_token(session))>>]_vars

\* A cycle asked for a new token, got none, and fetched and pushed the
\* device data with the token of start().
C30_Witness ==
    /\ last = Called("update_device_data", "", NoExc)
    /\ sent = <<LoginRequest, DeviceDataRequest("t1")>>
    /\ session = [userId |-> "u1", token |-> "t1", expirationDate |-> "e1"]
    /\ Len(log) >= 1

\* C36: whenever start() has returned True a device list is known (deviceid
\* is defined), and a start() whose login succeeded does not raise, even
\* when the device-list or the user-assignment request failed.
C36_StartedIsUsable ==
    [][StartStep =>
          /\ returned' = Return(TRUE) => devices' # None
          /\ session' # None => last'.exc = NoExc]_vars

\* C35: whenever the current snapshot carries the side's heating level,
\* past_heating_level(0) is heating_level: the level an evaluation reads
\* and the index-0 value of its edge tests come from the same snapshot.
C35_PastZeroIsCurrent ==
    \A side \in Sides :
        (/\ device_data(device_json) # None
         /\ HeatingLevelKey(side) \in DOMAIN device_data(device_json))
            => past_heating_level(device_json, side, 0)
                   = heating_level(device_json, side)

\* A cycle pushed a snapshot whose level for the right side differs from
\* the level of the snapshot before it.
C35_Witness ==
    /\ last.op = "update_device_data"
    /\ Len(log) >= 2
    /\ device_data(device_json) = log[Len(log)]
    /\ HeatingLevelKey("right") \in DOMAIN device_data(device_json)
    /\ "right" \in DOMAIN users
    /\ PastLevel(device_json, "right", 1) # Level(device_json, "right")

\* dynamic_presence ran for the side in this step, with or without data:
\* called directly, or by a polling cycle whose loop reached the side.
EvaluationRan(side) ==
    /\ side \in DOMAIN users
    /\ \/ last'.op = "dynamic_presence" /\ last'.side = side
       \/ /\ PushingCycle
          /\ side = "right" \/ "right" \notin DOMAIN users \/ last'.exc = NoExc

\* C34: evaluation is idempotent on unchanged inputs: a second run of
\* dynamic_presence on the list and the side as the first run left them
\* yields the same presence and observed_low.
C34_Idempotent ==
    [][\A side \in Sides :
          EvaluationRan(side) =>
              dynamic_presence(device_json', pod, users'[side]).user
                  = users'[side]]_vars

\* After an evaluation, with a history of two snapshots or more, a side is
\* present at a level of 50 or below: the leaving rules apply to it on the
\* next run.
C34_Witness ==
    /\ last.op \in {"dynamic_presence", "update_device_data"}
    /\ Len(log) >= 2
    /\ \E side \in DOMAIN users :
          /\ HasData(device_json, side)
          /\ users[side].presence
          /\ Level(device_json, side) <= 50

\* C33: after every evaluation that passes the early exit, observed_low is
\* at most min(0, heating level), so the pod's workingLevel (heating level
\* minus observed_low) is at least 0 and at least the raw level; and when
\* the level is the lowest observed (it equals observed_low), a pod side is
\* absent after the evaluation.
C33_ObservedLowBelowLevel ==
    [][\A side \in Sides :
          Evaluated(side) =>
              /\ users'[side].observed_low <= Min(0, Level(device_json', side))
              /\ Level(device_json', side) - users'[side].observed_low >= 0
              /\ Level(device_json', side) - users'[side].observed_low
                     >= Level(device_json', side)
              /\ (pod /\ Level(device_json', side)
                             = users'[side].observed_low)
                     => ~users'[side].presence]_vars

\* On a pod an evaluation has run at a level below 0 that is the lowest
\* observed, after an earlier snapshot.
C33_Witness ==
    /\ pod
    /\ last.op \in {"dynamic_presence", "update_device_data"}
    /\ Len(log) >= 2
    /\ \E side \in DOMAIN users :
          /\ HasData(device_json, side)
          /\ Level(device_json, side) < 0
          /\ Level(device_json, side) = users[side].observed_low
          /\ PastLevel(device_json, side, 1) > 50

\* x clamped to low..high.
Clamp(low, high, x) == IF x < low THEN low ELSE IF x > high THEN high ELSE x

\* A call of set_heating_level(level, ...) by the user of `side`.
CommandWith(side, level) ==
    \E duration \in Durations, rs \in LevelResponses :
        SetHeatingLevel(side, level, duration, rs[1], rs[2])

\* C31: the target level set_heating_level sends is the level asked for
\* clamped to -100..100 on a pod and to 0..100 otherwise, for every level
\* asked for.
C31_LevelClamped ==
    [][last'.op = "set_heating_level" =>
          \A level \in CommandLevels :
              (CommandWith(last'.side, level) /\ last'.exc = NoExc) =>
                  /\ Len(sent') = 2
                  /\ DOMAIN sent'[2].data = {TargetHeatingLevelKey(last'.side)}
                  /\ sent'[2].data[TargetHeatingLevelKey(last'.side)]
                         = Clamp(IF pod THEN -100 ELSE 0, 100, level)]_vars

\* On a pod the level request of a command carried -100.
C31_Witness ==
    /\ last.op = "set_heating_level"
    /\ pod
    /\ Len(sent) = 2
    /\ sent[2].data[TargetHeatingLevelKey(last.side)] = -100

\* A call of set_heating_level by the user of `side` whose two requests are
\* answered by rs[1] and rs[2] (None: the request failed).
CommandAnswered(side, rs) ==
    \E level \in PollingLevels, duration \in PollingDurations :
        SetHeatingLevel(side, level, duration, rs[1], rs[2])

\* The device JSONs among the two answers, in the order of the requests.
Answered(rs) == SelectSeq(rs, LAMBDA resp : resp # None)

\* C32: set_heating_level sends the duration request and then the level
\* request, the second whether or not the first succeeded, and the history
\* receives exactly the device JSONs of the requests that succeeded: a
\* failed request pushes nothing.
C32_DurationThenLevel ==
    [][last'.op = "set_heating_level" =>
          \A rs \in CommandResponses :
              (CommandAnswered(last'.side, rs) /\ last'.exc = NoExc) =>
                  /\ Len(sent') = 2
                  /\ DOMAIN sent'[1].data = {last'.side \o "HeatingDuration"}
                  /\ DOMAIN sent'[2].data = {TargetHeatingLevelKey(last'.side)}
                  /\ log' = log \o Answered(rs)
                  /\ Answered(rs) = <<>> => device_json' = device_json]_vars

\* A command was sent before any snapshot was pushed: both its requests
\* went out and both failed.
C32_Witness ==
    /\ last = Called("set_heating_level", last.side, NoExc)
    /\ last.side \in DOMAIN users
    /\ Len(sent) = 2
    /\ log = <<>>

=============================================================================
